---- MODULE Spec2Model ----
(***************************************************************************)
(* Model of examples/irq_latency/vmm.c: the three Microkit entry points of *)
(* the VMM (init, notified, fault) together with the collaborators they    *)
(* call.  Every entry point runs to completion, so each one is a single    *)
(* action; the calls it makes are recorded, in program order, in `last`    *)
(* (and, for init, also in `boot`).                                        *)
(*                                                                         *)
(* The collaborators (linux_setup_images, virq_*, fault_handle,            *)
(* guest_start, microkit_irq_ack) are library code that is not part of     *)
(* vmm.c: their results are nondeterministic inputs and their effects on   *)
(* the guest, the controller and the interrupt line follow the design      *)
(* document.                                                               *)
(***************************************************************************)
EXTENDS Integers, Sequences, FiniteSets, TLC

\* ------------------------------------------------------------------ bounds
\* Number of notified/fault invocations explored after init.
MaxSteps == 4
\* Number of fault invocations explored by the long run of traps.
MaxFaults == 100001

\* --------------------------------------------------------------- constants
GUEST_DTB_VADDR == 1325400064
GUEST_INIT_RAM_DISK_VADDR == 1291845632
SERIAL_IRQ_CH == 1
SERIAL_IRQ == 33
GUEST_BOOT_VCPU_ID == 0
\* The period of the liveness log line of fault().
FAULT_LOG_PERIOD == 100000

\* Channels the runtime may notify the VMM on (one registered, two not).
Channels == {0, SERIAL_IRQ_CH, 2}
\* Start of the guest RAM region, set by Microkit.
guest_ram_vaddr == 1073741824
\* _guest_kernel_image_end - _guest_kernel_image, and the other two blobs.
KernelSizes == {0, 4096}
dtb_size == 1024
initrd_size == 2048
\* Content of *reply_msginfo before fault() runs.
ReplyGarbage == {0, 4097}

VARIABLES
    pc,            \* "boot": init has not run; "idle": waiting for an event
    kernel_size,   \* size of the linked-in kernel blob
    guest,         \* "Unstarted" | "Running" | "Halted"
    vgic,          \* Virtual Interrupt Controller: inited, registered, pending
    irq_armed,     \* physical serial IRQ is acknowledged (may fire again)
    notif_pending, \* a notification on SERIAL_IRQ_CH awaits delivery
    count,         \* static uint64_t count
    boot,          \* what init did
    last,          \* the most recent entry-point invocation
    fault_calls,   \* number of invocations of fault() so far
    live_logs,     \* number of liveness log lines of fault() so far
    steps          \* number of notified/fault invocations so far

vars == <<pc, kernel_size, guest, vgic, irq_armed, notif_pending, count,
          boot, last, fault_calls, live_logs, steps>>

\* ----------------------------------------------------------------- helpers
Call(fn, args) == [fn |-> fn, args |-> args, cb |-> "none"]
CallCb(fn, args, cb) == [fn |-> fn, args |-> args, cb |-> cb]
LOG_VMM(line) == Call("LOG_VMM", <<line>>)
LOG_VMM_ERR(line) == Call("LOG_VMM_ERR", <<line>>)
printf(line) == Call("printf", <<line>>)

\* Positions of the calls of fn in a sequence of calls, and their number.
Pos(calls, fn) == {i \in DOMAIN calls : calls[i].fn = fn}
NumCalls(calls, fn) == Cardinality(Pos(calls, fn))
Called(calls, fn) == Pos(calls, fn) # {}

microkit_msginfo_new(label, cnt) == label * 4096 + cnt

\* serial_ack(vcpu_id, irq, cookie): acknowledge the serial channel.
serial_ack(vcpu_id, irq, cookie) ==
    << Call("serial_ack", <<vcpu_id, irq, cookie>>),
       Call("microkit_irq_ack", <<SERIAL_IRQ_CH>>) >>

\* The entry points linux_setup_images may return for a kernel blob.
LinuxSetupImages(ksize) ==
    IF ksize = 0 THEN {0}
    ELSE {0, guest_ram_vaddr, guest_ram_vaddr + 524288}

\* The calls the controller makes when an injected interrupt of a registered
\* source is completed: the registered callback.
VirqAckCallback(v) ==
    IF v.registered THEN serial_ack(GUEST_BOOT_VCPU_ID, SERIAL_IRQ, 0) ELSE <<>>

NoLast == [op |-> "none", ch |-> 0, calls |-> <<>>, ret |-> FALSE,
           reply_in |-> 0, reply |-> 0, reply_written |-> FALSE,
           handled |-> FALSE]

\* -------------------------------------------------------------------- init
\* init() up to and including the call of linux_setup_images.
InitSetup ==
    << LOG_VMM(54), LOG_VMM(60),
       Call("linux_setup_images",
            <<guest_ram_vaddr, kernel_size, GUEST_DTB_VADDR, dtb_size,
              GUEST_INIT_RAM_DISK_VADDR, initrd_size>>) >>

\* init(): the initialisation of the virtual GIC driver.
InitCtl == << LOG_VMM(77), Call("virq_controller_init", <<>>) >>

\* init(): the registration of the serial interrupt.
InitRegister ==
    << CallCb("virq_register", <<GUEST_BOOT_VCPU_ID, SERIAL_IRQ, 0>>,
              "serial_ack") >>

\* init(): the acknowledgment "just in case".
InitAck == << LOG_VMM(86), Call("microkit_irq_ack", <<SERIAL_IRQ_CH>>) >>

\* init() that passes the boot arguments of guest_start in the wrong order.
InitStart_SwappedArgs(kernel_pc) ==
    << LOG_VMM(89),
       Call("guest_start",
            <<kernel_pc, GUEST_INIT_RAM_DISK_VADDR, GUEST_DTB_VADDR>>) >>

\* init(): the start of the guest.
InitStart(kernel_pc) ==
    << LOG_VMM(89),
       Call("guest_start",
            <<kernel_pc, GUEST_DTB_VADDR, GUEST_INIT_RAM_DISK_VADDR>>) >>

\* init() without the return after a zero entry point.
init_calls_NoImageCheck(kernel_pc, ctl_ok, reg_ok) ==
    IF kernel_pc = 0 /\ ~ctl_ok
    THEN InitSetup \o << LOG_VMM_ERR(73) >> \o InitCtl \o << LOG_VMM_ERR(80) >>
    ELSE IF ~ctl_ok THEN InitSetup \o InitCtl \o << LOG_VMM_ERR(80) >>
    ELSE InitSetup \o (IF kernel_pc = 0 THEN << LOG_VMM_ERR(73) >> ELSE <<>>)
         \o InitCtl \o InitRegister \o InitAck \o InitStart(kernel_pc)

\* init() without the return after a failed controller initialisation.
init_calls_NoCtlCheck(kernel_pc, ctl_ok, reg_ok) ==
    IF kernel_pc = 0 THEN InitSetup \o << LOG_VMM_ERR(73) >>
    ELSE InitSetup \o InitCtl
         \o (IF ctl_ok THEN <<>> ELSE << LOG_VMM_ERR(80) >>)
         \o InitRegister \o InitAck \o InitStart(kernel_pc)

\* init() that starts the guest before the acknowledgment.
init_calls_StartBeforeAck(kernel_pc, ctl_ok, reg_ok) ==
    IF kernel_pc = 0 THEN InitSetup \o << LOG_VMM_ERR(73) >>
    ELSE IF ~ctl_ok THEN InitSetup \o InitCtl \o << LOG_VMM_ERR(80) >>
    ELSE InitSetup \o InitCtl \o InitRegister \o InitStart(kernel_pc) \o InitAck

\* init() that returns after a failed registration.
init_calls_RegFatal(kernel_pc, ctl_ok, reg_ok) ==
    IF kernel_pc = 0 THEN InitSetup \o << LOG_VMM_ERR(73) >>
    ELSE IF ~ctl_ok THEN InitSetup \o InitCtl \o << LOG_VMM_ERR(80) >>
    ELSE IF ~reg_ok THEN InitSetup \o InitCtl \o InitRegister
    ELSE InitSetup \o InitCtl \o InitRegister \o InitAck \o InitStart(kernel_pc)

\* The calls of init(), given the results of the three fallible collaborators.
init_calls(kernel_pc, ctl_ok, reg_ok) ==
    IF kernel_pc = 0 THEN InitSetup \o << LOG_VMM_ERR(73) >>
    ELSE IF ~ctl_ok THEN InitSetup \o InitCtl \o << LOG_VMM_ERR(80) >>
    ELSE InitSetup \o InitCtl \o InitRegister \o InitAck \o InitStart(kernel_pc)

\* Effects of the calls of an entry point on the collaborators.
GuestAfter(g, calls) == IF Called(calls, "guest_start") THEN "Running" ELSE g
ArmedAfter(a, calls) == a \/ Called(calls, "microkit_irq_ack")

VmmInit ==
    /\ pc = "boot"
    /\ \E kernel_pc \in LinuxSetupImages(kernel_size), ctl_ok, reg_ok \in BOOLEAN :
         LET calls == init_calls(kernel_pc, ctl_ok, reg_ok) IN
         /\ boot' = [done |-> TRUE, kernel_pc |-> kernel_pc, ctl_ok |-> ctl_ok,
                     reg_ok |-> reg_ok, calls |-> calls]
         /\ last' = [NoLast EXCEPT !.op = "init", !.calls = calls]
         /\ vgic' = [inited |-> Called(calls, "virq_controller_init") /\ ctl_ok,
                     registered |-> Called(calls, "virq_register") /\ reg_ok,
                     pending |-> FALSE]
         /\ guest' = GuestAfter(guest, calls)
         /\ irq_armed' = ArmedAfter(irq_armed, calls)
    /\ pc' = "idle"
    /\ UNCHANGED <<kernel_size, notif_pending, count, fault_calls, live_logs,
                   steps>>

\* ---------------------------------------------------------------- notified
\* notified() that tries the injection again after a failure.
notified_calls_Retry(ch, inject_ok, cb_calls) ==
    IF ch = SERIAL_IRQ_CH
    THEN << LOG_VMM(97), LOG_VMM(98), Call("virq_inject", <<SERIAL_IRQ>>) >>
         \o cb_calls
         \o (IF inject_ok THEN <<>>
             ELSE << LOG_VMM_ERR(101), Call("virq_inject", <<SERIAL_IRQ>>) >>)
    ELSE << printf(106) >>

\* notified() without the switch: every channel is treated as the serial one.
notified_calls_AnyChannel(ch, inject_ok, cb_calls) ==
    << LOG_VMM(97), LOG_VMM(98), Call("virq_inject", <<SERIAL_IRQ>>) >>
    \o cb_calls
    \o (IF inject_ok THEN <<>> ELSE << LOG_VMM_ERR(101) >>)

\* notified() that starts the guest again when the injection is rejected.
notified_calls_Restart(ch, inject_ok, cb_calls) ==
    IF ch = SERIAL_IRQ_CH
    THEN << LOG_VMM(97), LOG_VMM(98), Call("virq_inject", <<SERIAL_IRQ>>) >>
         \o cb_calls
         \o (IF inject_ok THEN <<>>
             ELSE << LOG_VMM_ERR(101),
                     Call("guest_start",
                          <<boot.kernel_pc, GUEST_DTB_VADDR,
                            GUEST_INIT_RAM_DISK_VADDR>>) >>)
    ELSE << printf(106) >>

\* notified() that injects the channel number instead of the interrupt number.
notified_calls_WrongIrq(ch, inject_ok, cb_calls) ==
    IF ch = SERIAL_IRQ_CH
    THEN << LOG_VMM(97), LOG_VMM(98), Call("virq_inject", <<SERIAL_IRQ_CH>>) >>
         \o cb_calls
         \o (IF inject_ok THEN <<>> ELSE << LOG_VMM_ERR(101) >>)
    ELSE << printf(106) >>

\* notified() that injects only once the controller has been initialised.
notified_calls_NoInject(ch, inject_ok, cb_calls) ==
    IF ch = SERIAL_IRQ_CH
    THEN IF vgic.inited
         THEN << LOG_VMM(97), LOG_VMM(98), Call("virq_inject", <<SERIAL_IRQ>>) >>
              \o cb_calls
              \o (IF inject_ok THEN <<>> ELSE << LOG_VMM_ERR(101) >>)
         ELSE << LOG_VMM(97) >>
    ELSE << printf(106) >>

\* The calls of notified(ch); inject_ok is the result of virq_inject and
\* cb_calls the calls the controller makes from inside virq_inject.
notified_calls(ch, inject_ok, cb_calls) ==
    IF ch = SERIAL_IRQ_CH
    THEN << LOG_VMM(97), LOG_VMM(98), Call("virq_inject", <<SERIAL_IRQ>>) >>
         \o cb_calls
         \o (IF inject_ok THEN <<>> ELSE << LOG_VMM_ERR(101) >>)
    ELSE << printf(106) >>

Notified(ch) ==
    /\ pc = "idle"
    /\ steps < MaxSteps
    /\ ch = SERIAL_IRQ_CH => notif_pending
    /\ \E inject_ok, sync \in BOOLEAN :
         \* An accepted injection is completed (the registered callback runs)
         \* either inside virq_inject or later, from the fault path; a
         \* rejected one never is.
         LET cb_calls == IF inject_ok /\ sync THEN VirqAckCallback(vgic) ELSE <<>>
             calls == notified_calls(ch, inject_ok, cb_calls)
             injected == Called(calls, "virq_inject") /\ inject_ok
         IN
         /\ last' = [NoLast EXCEPT !.op = "notified", !.ch = ch,
                                   !.calls = calls, !.ret = injected]
         /\ vgic' = IF injected /\ ~sync
                    THEN [vgic EXCEPT !.pending = TRUE] ELSE vgic
         /\ irq_armed' = ArmedAfter(irq_armed, calls)
         /\ guest' = GuestAfter(guest, calls)
    /\ notif_pending' = IF ch = SERIAL_IRQ_CH THEN FALSE ELSE notif_pending
    /\ steps' = steps + 1
    /\ UNCHANGED <<pc, kernel_size, count, boot, fault_calls, live_logs>>

\* ------------------------------------------------------------------- fault
\* fault() that writes the reply before it tests the dispatcher's result.
fault_body_ReplyAlways(c, handled, reply_in) ==
    LET n == c + 1 IN
    [count   |-> n,
     log     |-> IF n % FAULT_LOG_PERIOD = 0 THEN << LOG_VMM(120) >> ELSE <<>>,
     ret     |-> handled,
     reply   |-> microkit_msginfo_new(0, 0),
     written |-> TRUE]

\* fault() that counts only the traps the dispatcher handled.
fault_body_CountOnSuccess(c, handled, reply_in) ==
    LET n == IF handled THEN c + 1 ELSE c IN
    [count   |-> n,
     log     |-> IF handled /\ n % FAULT_LOG_PERIOD = 0
                 THEN << LOG_VMM(120) >> ELSE <<>>,
     ret     |-> handled,
     reply   |-> IF handled THEN microkit_msginfo_new(0, 0) ELSE reply_in,
     written |-> handled]

\* fault() that tests the counter for the log line before it increments it.
fault_body_LogBeforeIncrement(c, handled, reply_in) ==
    LET n == c + 1 IN
    [count   |-> n,
     log     |-> IF c % FAULT_LOG_PERIOD = 0 THEN << LOG_VMM(120) >> ELSE <<>>,
     ret     |-> handled,
     reply   |-> IF handled THEN microkit_msginfo_new(0, 0) ELSE reply_in,
     written |-> handled]

\* fault() that clears the counter when the dispatcher fails.
fault_body_ResetOnFailure(c, handled, reply_in) ==
    LET n == IF handled THEN c + 1 ELSE 0 IN
    [count   |-> n,
     log     |-> IF handled /\ n % FAULT_LOG_PERIOD = 0
                 THEN << LOG_VMM(120) >> ELSE <<>>,
     ret     |-> handled,
     reply   |-> IF handled THEN microkit_msginfo_new(0, 0) ELSE reply_in,
     written |-> handled]

\* The body of fault() around the dispatcher: the counter after count++, the
\* liveness log line, the return value and the reply message, given the old
\* counter, the result of fault_handle and the content of *reply_msginfo.
fault_body(c, handled, reply_in) ==
    LET n == c + 1 IN
    [count   |-> n,
     log     |-> IF n % FAULT_LOG_PERIOD = 0 THEN << LOG_VMM(120) >> ELSE <<>>,
     ret     |-> handled,
     reply   |-> IF handled THEN microkit_msginfo_new(0, 0) ELSE reply_in,
     written |-> handled]

\* One invocation of fault(), with *reply_msginfo drawn from replies.
FaultEntry(replies) ==
    /\ pc = "idle"
    /\ guest = "Running"
    /\ \E handled, eoi \in BOOLEAN, reply_in \in replies :
         \* eoi: the trap completes the pending serial interrupt, so the
         \* dispatcher runs the registered callback.
         LET f == fault_body(count, handled, reply_in)
             done == eoi /\ vgic.pending
             cb_calls == IF done THEN VirqAckCallback(vgic) ELSE <<>>
             calls == f.log \o << Call("fault_handle", <<>>) >> \o cb_calls
         IN
         /\ count' = f.count
         /\ live_logs' = live_logs + NumCalls(f.log, "LOG_VMM")
         /\ last' = [op |-> "fault", ch |-> 0, calls |-> calls, ret |-> f.ret,
                     reply_in |-> reply_in, reply |-> f.reply,
                     reply_written |-> f.written, handled |-> handled]
         /\ vgic' = IF done THEN [vgic EXCEPT !.pending = FALSE] ELSE vgic
         /\ irq_armed' = ArmedAfter(irq_armed, calls)
         /\ guest' = IF f.ret THEN GuestAfter(guest, calls) ELSE "Halted"
    /\ fault_calls' = fault_calls + 1
    /\ UNCHANGED <<pc, kernel_size, notif_pending, boot>>

Fault ==
    /\ steps < MaxSteps
    /\ FaultEntry(ReplyGarbage)
    /\ steps' = steps + 1

\* A trap of a long run of traps (no notification in between).
FaultRun ==
    /\ count < MaxFaults
    /\ FaultEntry({0})
    /\ UNCHANGED steps

\* ---------------------------------------------------------- physical source
\* The serial device raises its interrupt: the kernel signals the channel and
\* masks the line until it is acknowledged.
Pulse ==
    /\ irq_armed
    /\ irq_armed' = FALSE
    /\ notif_pending' = TRUE
    /\ UNCHANGED <<pc, kernel_size, guest, vgic, count, boot, last,
                   fault_calls, live_logs, steps>>

\* ------------------------------------------------------------ specification
Init ==
    /\ pc = "boot"
    /\ kernel_size \in KernelSizes
    /\ guest = "Unstarted"
    /\ vgic = [inited |-> FALSE, registered |-> FALSE, pending |-> FALSE]
    /\ irq_armed = TRUE
    /\ notif_pending = FALSE
    /\ count = 0
    /\ boot = [done |-> FALSE, kernel_pc |-> 0, ctl_ok |-> FALSE,
               reg_ok |-> FALSE, calls |-> <<>>]
    /\ last = NoLast
    /\ fault_calls = 0
    /\ live_logs = 0
    /\ steps = 0

NotifiedAny == \E ch \in Channels : Notified(ch)

Next == VmmInit \/ NotifiedAny \/ Fault \/ Pulse

Spec == Init /\ [][Next]_vars

\* Boot followed by traps only, long enough for the liveness log line.
NextFaults == VmmInit \/ FaultRun

SpecFaults == Init /\ [][NextFaults]_vars

\* ------------------------------------------------------------------ claims
SerialNotified == last.op = "notified" /\ last.ch = SERIAL_IRQ_CH
Acks(calls) == NumCalls(calls, "microkit_irq_ack")

\* C1: every call of notified on the serial channel acknowledges the physical
\* source (microkit_irq_ack) exactly once during that call, whether
\* virq_inject succeeds or fails.
C1_AckOncePerNotification ==
    SerialNotified => Acks(last.calls) = 1

\* C2: within the handling of a notification on the serial channel, every
\* injection attempt is preceded by the acknowledgment of the physical source.
C2_AckBeforeInject ==
    SerialNotified =>
        \A i \in Pos(last.calls, "virq_inject") :
            \E j \in Pos(last.calls, "microkit_irq_ack") : j < i

\* C3: after a notification on the serial channel whose injection failed, the
\* physical source has been acknowledged, so that it can fire again.
C3_AckedAfterDrop ==
    (SerialNotified /\ ~last.ret) => irq_armed

BootFns == {"virq_controller_init", "virq_register", "microkit_irq_ack",
            "guest_start"}

\* C4: when linux_setup_images returns a zero entry point, init makes none of
\* the calls virq_controller_init, virq_register, microkit_irq_ack and
\* guest_start, the guest stays Unstarted, and the outcome is always the same
\* for the same input.
C4_ImageFailureAborts ==
    (boot.done /\ boot.kernel_pc = 0) =>
        /\ \A fn \in BootFns : ~Called(boot.calls, fn)
        /\ guest = "Unstarted"
        /\ ~vgic.inited /\ ~vgic.registered
        /\ boot.calls = << LOG_VMM(54), LOG_VMM(60),
                           Call("linux_setup_images",
                                <<guest_ram_vaddr, kernel_size, GUEST_DTB_VADDR,
                                  dtb_size, GUEST_INIT_RAM_DISK_VADDR,
                                  initrd_size>>),
                           LOG_VMM_ERR(73) >>

C4_Witness ==
    boot.done /\ boot.kernel_pc = 0 /\ kernel_size # 0 /\ last.op = "notified"

\* C5: when image setup succeeds and virq_controller_init fails, init makes
\* none of the calls virq_register, microkit_irq_ack and guest_start, and the
\* guest stays Unstarted.
C5_ControllerFailureAborts ==
    (boot.done /\ boot.kernel_pc # 0 /\ ~boot.ctl_ok) =>
        /\ Called(boot.calls, "virq_controller_init")
        /\ \A fn \in BootFns \ {"virq_controller_init"} : ~Called(boot.calls, fn)
        /\ guest = "Unstarted"
        /\ ~vgic.registered

C5_Witness ==
    boot.done /\ boot.kernel_pc # 0 /\ ~boot.ctl_ok /\ last.op = "notified"

\* The position of the only call of fn in calls (0 if there is not exactly one).
Only(calls, fn) ==
    IF NumCalls(calls, fn) = 1 THEN CHOOSE i \in Pos(calls, fn) : TRUE ELSE 0

BootOk == boot.done /\ boot.kernel_pc # 0 /\ boot.ctl_ok

\* C6: when image setup and controller initialisation succeed, init calls
\* linux_setup_images, virq_controller_init, virq_register (of SERIAL_IRQ with
\* serial_ack), microkit_irq_ack (of the serial channel) and guest_start, each
\* once and in this order; guest_start is its last call, and the guest has
\* left Unstarted exactly when guest_start has been called.
C6_BootOrder ==
    /\ BootOk =>
        LET c == boot.calls IN
        /\ 0 < Only(c, "linux_setup_images")
        /\ Only(c, "linux_setup_images") < Only(c, "virq_controller_init")
        /\ Only(c, "virq_controller_init") < Only(c, "virq_register")
        /\ Only(c, "virq_register") < Only(c, "microkit_irq_ack")
        /\ Only(c, "microkit_irq_ack") < Only(c, "guest_start")
        /\ Only(c, "guest_start") = Len(c)
        /\ c[Only(c, "virq_register")] =
               CallCb("virq_register", <<GUEST_BOOT_VCPU_ID, SERIAL_IRQ, 0>>,
                      "serial_ack")
        /\ c[Only(c, "microkit_irq_ack")].args = <<SERIAL_IRQ_CH>>
        /\ last.op = "init" => guest = "Running"
    /\ guest # "Unstarted" <=> Called(boot.calls, "guest_start")
    /\ ~boot.done => guest = "Unstarted"

C6_Witness ==
    BootOk /\ boot.reg_ok /\ last.op = "init" /\ guest = "Running"

\* C7: a failed virq_register does not stop init: it still acknowledges the
\* serial channel once and starts the guest, which becomes Running, with the
\* same calls as after a successful registration.
C7_RegisterFailureNonFatal ==
    (BootOk /\ ~boot.reg_ok) =>
        /\ Acks(boot.calls) = 1
        /\ NumCalls(boot.calls, "guest_start") = 1
        /\ boot.calls[Len(boot.calls)].fn = "guest_start"
        /\ guest # "Unstarted"
        /\ last.op = "init" => guest = "Running"
        /\ [i \in DOMAIN boot.calls |-> boot.calls[i].fn] =
               << "LOG_VMM", "LOG_VMM", "linux_setup_images", "LOG_VMM",
                  "virq_controller_init", "virq_register", "LOG_VMM",
                  "microkit_irq_ack", "LOG_VMM", "guest_start" >>

C7_Witness ==
    BootOk /\ ~boot.reg_ok /\ last.op = "init" /\ guest = "Running"

\* C8: when virq_register fails, init emits an error log entry for it after
\* the call of virq_register and before the call of guest_start.
C8_RegisterFailureLogged ==
    (BootOk /\ ~boot.reg_ok) =>
        \E i \in Pos(boot.calls, "LOG_VMM_ERR") :
            /\ \E r \in Pos(boot.calls, "virq_register") : r < i
            /\ \A g \in Pos(boot.calls, "guest_start") : i < g

\* C9: fault returns seL4_False and leaves the reply message unwritten when
\* fault_handle fails, and returns seL4_True with the reply message set to
\* microkit_msginfo_new(0, 0) when fault_handle succeeds.
C9_VerdictFollowsDispatcher ==
    last.op = "fault" =>
        /\ NumCalls(last.calls, "fault_handle") = 1
        /\ last.handled =>
               /\ last.ret
               /\ last.reply_written
               /\ last.reply = microkit_msginfo_new(0, 0)
               /\ guest = "Running"
        /\ ~last.handled =>
               /\ ~last.ret
               /\ ~last.reply_written
               /\ last.reply = last.reply_in
               /\ guest = "Halted"

C9_Witness ==
    last.op = "fault" /\ ~last.handled /\ last.reply_in # 0 /\ fault_calls > 1

\* C10: after K calls of fault, whatever the dispatcher returned, the counter
\* has increased by exactly K.
C10_CountEqualsCalls ==
    count = fault_calls

C10_Witness ==
    last.op = "fault" /\ ~last.handled /\ fault_calls >= 3 /\ count = fault_calls

\* A step that is an invocation of notified / of fault.
NotifiedStep == steps' = steps + 1 /\ last'.op = "notified"
FaultStep == fault_calls' = fault_calls + 1

\* C11: fault emits its liveness log line exactly on the calls after which the
\* counter is a positive multiple of 100000; after 100000 successful traps from
\* a fresh start the counter is 100000 and exactly one line has been emitted,
\* by the 100000th call.
C11_LivenessLogPeriod ==
    /\ live_logs = count \div 100000
    /\ last.op = "fault" =>
           /\ NumCalls(last.calls, "LOG_VMM") =
                  (IF count > 0 /\ count % 100000 = 0 THEN 1 ELSE 0)
           /\ \A i \in Pos(last.calls, "LOG_VMM") : last.calls[i] = LOG_VMM(120)
    /\ (count = 100000 /\ guest = "Running") =>
           /\ fault_calls = 100000
           /\ live_logs = 1
           /\ Called(last.calls, "LOG_VMM")

C11_Witness ==
    /\ count = 100000 /\ fault_calls = 100000 /\ guest = "Running"
    /\ last.op = "fault" /\ last.handled /\ live_logs = 1

\* C12: a failed virq_inject during a notification on the serial channel is a
\* dropped interrupt: one drop is logged, virq_inject is called once (no retry)
\* and nothing is queued in the controller; no notification, injected or
\* dropped, changes the state of the guest.
C12_DropIsLoggedNotRetried ==
    [][NotifiedStep =>
        /\ guest' = guest
        /\ (last'.ch = SERIAL_IRQ_CH /\ ~last'.ret) =>
               /\ NumCalls(last'.calls, "virq_inject") = 1
               /\ NumCalls(last'.calls, "LOG_VMM_ERR") = 1
               /\ last'.calls[Len(last'.calls)] = LOG_VMM_ERR(101)
               /\ vgic' = vgic]_vars

C12_Witness ==
    SerialNotified /\ ~last.ret /\ guest = "Running" /\ steps >= 2

\* C13: a notification on a channel other than the serial channel produces
\* exactly one log entry, makes no acknowledgment and no injection, and leaves
\* the guest, the controller, the interrupt line and the counter unchanged.
C13_UnknownChannelOnlyLogged ==
    [][(NotifiedStep /\ last'.ch # SERIAL_IRQ_CH) =>
        /\ last'.calls = << printf(106) >>
        /\ guest' = guest
        /\ count' = count
        /\ vgic' = vgic
        /\ irq_armed' = irq_armed
        /\ notif_pending' = notif_pending]_vars

C13_Witness ==
    /\ last.op = "notified" /\ last.ch = 2
    /\ guest = "Running" /\ count > 0 /\ notif_pending

C15_NoInjectWhileHalted ==
    (SerialNotified /\ guest = "Halted") =>
        /\ ~Called(last.calls, "virq_inject")
        /\ ~Called(last.calls, "LOG_VMM_ERR")
        /\ ~vgic.pending

\* C16: on a successful boot guest_start is called with the entry point that
\* linux_setup_images returned and with the DTB address 0x4f000000 and the
\* initrd address 0x4d000000, the same that linux_setup_images was given.
C16_GuestStartArguments ==
    BootOk =>
        LET g == boot.calls[Only(boot.calls, "guest_start")]
            l == boot.calls[Only(boot.calls, "linux_setup_images")]
        IN  /\ boot.kernel_pc \in LinuxSetupImages(kernel_size) \ {0}
            /\ g.args = <<boot.kernel_pc, 1325400064, 1291845632>>
            /\ l.args[3] = g.args[2]
            /\ l.args[5] = g.args[3]

C16_Witness ==
    BootOk /\ boot.kernel_pc = guest_ram_vaddr + 524288 /\ guest = "Running"

\* C17: only an invocation of fault changes the counter, by one and upwards:
\* init and notified leave it unchanged and it is never reset or decreased.
C17_CounterOnlyByFault ==
    [][/\ count' >= count
       /\ count' # count => (FaultStep /\ last'.op = "fault" /\ count' = count + 1)
       /\ (NotifiedStep \/ pc # pc') => count' = count]_vars

C17_Witness ==
    count >= 2 /\ last.op = "notified" /\ guest = "Halted"

\* C18: virq_register is called at most once, by init and before guest_start;
\* notified and fault never call it and never change the registration; every
\* injection is made by notified, for SERIAL_IRQ, on the serial channel.
C18_MappingWriteOnce ==
    /\ NumCalls(boot.calls, "virq_register") <= 1
    /\ \A r \in Pos(boot.calls, "virq_register") :
           /\ boot.calls[r] = CallCb("virq_register",
                                     <<GUEST_BOOT_VCPU_ID, 33, 0>>, "serial_ack")
           /\ \A g \in Pos(boot.calls, "guest_start") : r < g
    /\ ~boot.done => ~vgic.registered
    /\ boot.done =>
           vgic.registered = (Called(boot.calls, "virq_register") /\ boot.reg_ok)
    /\ last.op \in {"notified", "fault"} => ~Called(last.calls, "virq_register")
    /\ \A i \in Pos(last.calls, "virq_inject") :
           /\ last.op = "notified"
           /\ last.ch = 1
           /\ last.calls[i].args = <<33>>

C18_Witness ==
    vgic.registered /\ SerialNotified /\ last.ret /\ fault_calls >= 1

\* C19: whatever init did, also when it stopped before the controller was
\* initialised, a notification on the serial channel calls
\* virq_inject(SERIAL_IRQ) exactly once.
C19_InjectWhateverBootDid ==
    SerialNotified =>
        /\ NumCalls(last.calls, "virq_inject") = 1
        /\ \A i \in Pos(last.calls, "virq_inject") :
               last.calls[i] = Call("virq_inject", <<SERIAL_IRQ>>)

C19_Witness ==
    /\ SerialNotified /\ Called(last.calls, "virq_inject")
    /\ boot.done /\ boot.kernel_pc = 0
    /\ ~vgic.inited /\ ~vgic.registered /\ guest = "Unstarted"

====
